---------------------------- MODULE Spec2Model ----------------------------
(***************************************************************************)
(* Personal finance tracker: the Express routes (registerRoutes) over the  *)
(* DatabaseStorage layer and the PostgreSQL tables of the shared schema.   *)
(*                                                                         *)
(* Money.  A decimal(12,2) column holds a whole number of minor units; a   *)
(* decimal text is modelled by that number (cents) plus the sign of any    *)
(* digits beyond the second fractional place (tail).  A JavaScript number  *)
(* is modelled by the exact rational it stands for (num/den, in cents)     *)
(* plus the sign of the double's representation error (err): on the        *)
(* magnitudes of a decimal(12,2) column that error is far below any        *)
(* distance the code's roundings can see, except exactly on a tie.  Which  *)
(* side of the exact value an inexact double lies on is fixed by IEEE 754  *)
(* but not computed here: both sides are explored.                         *)
(*                                                                         *)
(* Text.  A string is a sequence of one-character strings, so that         *)
(* split(',') and trim() are computed character by character.              *)
(***************************************************************************)
EXTENDS Integers, Sequences, FiniteSets

VARIABLES
    bankAccounts,       \* table bank_accounts, rows in insertion order
    transactions,       \* table transactions, rows in insertion order
    splitExpenses,      \* table split_expenses, rows in insertion order
    splitParticipants,  \* table split_participants, rows in insertion order
    created,            \* rows ever inserted per table (stands for gen_random_uuid)
    request,            \* the last request: its principal and the id it named
    response,           \* the operation last asked for and the answer the route gave
    posted,             \* history: per account, the balance stored at creation and
                        \* the amounts of the POST /api/transactions calls answered 201
    now,                \* the database clock, the value of defaultNow()
    calls               \* createTransaction calls in progress, one per connection,
                        \* and the order in which they read and wrote the balance

vars == <<bankAccounts, transactions, splitExpenses, splitParticipants,
          created, request, response, posted, now, calls>>

ledgerVars == <<bankAccounts, transactions, posted>>
splitVars == <<splitExpenses, splitParticipants>>

\* What a route that runs from request to answer in one piece leaves alone: it
\* does not advance the clock and overlaps no other call.
aside == <<now, calls>>

----------------------------------------------------------------------------
(* Bounds of the model *)

MaxAccounts == 2
MaxTransactions == 2
MaxExpenses == 2
MaxClock == 2

----------------------------------------------------------------------------
(* Generic helpers *)

Abs(x) == IF x < 0 THEN 0 - x ELSE x

Range(seq) == {seq[i] : i \in DOMAIN seq}

Sign(x) == IF x < 0 THEN 0 - 1 ELSE IF x > 0 THEN 1 ELSE 0

RECURSIVE GCD(_, _)
GCD(a, b) == IF b = 0 THEN a ELSE GCD(b, a % b)

RECURSIVE IsPowerOfTwo(_)
IsPowerOfTwo(n) == IF n = 1 THEN TRUE
                   ELSE IF n % 2 = 1 THEN FALSE
                   ELSE IsPowerOfTwo(n \div 2)

----------------------------------------------------------------------------
(* Decimal texts, PostgreSQL numeric(12,2) and JavaScript numbers *)

\* The text of a decimal with at most two fractional digits, e.g. "12.50".
Decimal(cents) == [ok |-> TRUE, cents |-> cents, tail |-> 0]

\* A text that is no number at all, e.g. "abc": z.string() accepts it, the
\* numeric column does not.
Malformed == [ok |-> FALSE, cents |-> 0, tail |-> 0]

\* A slip in the column: digits beyond the second are cut off, not rounded.
PgNumericTruncates(text) == text.cents + (IF text.tail < 0 THEN 0 - 1 ELSE 0)

\* decimal(.., { precision: 12, scale: 2 }): a valid text is rounded to two
\* fractional digits; digits beyond the second that change no minor unit fall away.
PgNumeric(text) == text.cents

\* Whether num/den cents, i.e. num/(100*den) units, is a binary fraction and so
\* a double holds it exactly.
Dyadic(num, den) ==
    IF num = 0 THEN TRUE
    ELSE IsPowerOfTwo((100 * den) \div GCD(Abs(num), 100 * den))

\* parseFloat of a valid decimal text: the doubles it may yield.
parseFloat(text) ==
    { [num |-> text.cents, den |-> 1, err |-> e] :
        e \in IF Dyadic(text.cents, 1) THEN {0} ELSE {0 - 1, 1} }

\* x + y and x - y on doubles with the same denominator 1 (balances and amounts).
FloatAdd(x, y, sgn) ==
    LET n == x.num + sgn * y.num
    IN  { [num |-> n, den |-> 1, err |-> e] :
            e \in IF ~Dyadic(n, 1) THEN {0 - 1, 1}
                  ELSE IF x.err = 0 /\ y.err = 0 THEN {0}
                  ELSE {0 - 1, 0, 1} }

\* A slip in the divisor: one more than the number of names.
FloatDivOffByOne(x, n) ==
    { [num |-> x.num, den |-> x.den * (n + 1), err |-> e] : e \in {0 - 1, 1} }

\* x / n for a positive integer n.
FloatDiv(x, n) ==
    { [num |-> x.num, den |-> x.den * n, err |-> e] :
        e \in IF ~Dyadic(x.num, x.den * n) THEN {0 - 1, 1}
              ELSE IF x.err = 0 THEN {0}
              ELSE {0 - 1, 0, 1} }

\* Number.prototype.toString of a double that stands for whole cents: the
\* shortest text that reads back as the same double, which is the two-digit
\* decimal itself or one with further digits on the side of the error.
numberToString(x) ==
    { [ok |-> TRUE, cents |-> x.num, tail |-> t] : t \in {0, x.err} }

\* A slip in the rounding: the digits beyond the second are cut off.
toFixedTruncates(x) == Decimal(Sign(x.num) * (Abs(x.num) \div x.den))

\* Number.prototype.toFixed(2): the two-digit decimal nearest to the double.  The
\* sign is set aside and the magnitude rounded; of two equally near decimals the
\* larger is taken, which happens only when the double is exactly the midpoint.
toFixed2(x) ==
    LET a == Abs(x.num)
        q == a \div x.den
        r == a % x.den
        below == x.err * Sign(x.num) < 0
        magnitude == IF 2 * r < x.den THEN q
                     ELSE IF 2 * r > x.den THEN q + 1
                     ELSE IF below THEN q ELSE q + 1
    IN  Decimal(Sign(x.num) * magnitude)

\* A decimal column read back by the driver: the text with exactly two
\* fractional digits.
PgText(value) == Decimal(value)

\* JSON.stringify(parseFloat(text)) for a two-digit decimal text: the shortest
\* digits that read back as the same double are those of the decimal, so the
\* caller receives its value (in cents here).
jsonNumber(text) == text.cents

----------------------------------------------------------------------------
(* Strings *)

Whitespace == {" "}

RECURSIVE split(_, _)
\* String.prototype.split(separator): the pieces between the separators, in
\* order; a text without separator, the empty one too, is its only piece.
split(text, separator) ==
    IF \A i \in DOMAIN text : text[i] # separator THEN <<text>>
    ELSE LET i == CHOOSE k \in DOMAIN text :
                    /\ text[k] = separator
                    /\ \A j \in 1..(k - 1) : text[j] # separator
         IN  <<SubSeq(text, 1, i - 1)>>
                 \o split(SubSeq(text, i + 1, Len(text)), separator)

RECURSIVE trimStart(_)
trimStart(text) ==
    IF text # << >> /\ Head(text) \in Whitespace THEN trimStart(Tail(text))
    ELSE text

RECURSIVE trimEnd(_)
trimEnd(text) ==
    IF text # << >> /\ text[Len(text)] \in Whitespace
    THEN trimEnd(SubSeq(text, 1, Len(text) - 1))
    ELSE text

\* String.prototype.trim()
trim(text) == trimEnd(trimStart(text))

----------------------------------------------------------------------------
(* Principals and request fields *)

\* Every request modelled carries a session (requireAuth calls next()): the
\* acting principal req.user!.id is one of the registered users.
Users == {"u1", "u2"}

\* A field of req.body: left out (undefined), or given as a text.  NotGiven is
\* a decimal field left out, Undefined a string field left out.
NotGiven == [given |-> FALSE, text |-> Malformed]
Undefined == [given |-> FALSE, text |-> << >>]
Given(text) == [given |-> TRUE, text |-> text]

\* Opening balances offered to POST /api/accounts (balance is optional, default "0").
\* Offered here: none and "10.10".
OpeningBalances == {NotGiven, Given(Decimal(1010))}

\* Amounts offered to POST /api/transactions: "12.50", "0", "-5.00" and "abc".
TransactionAmounts ==
    {Decimal(1250), Decimal(0), Decimal(0 - 500), Malformed}

\* type is free text in the schema; "refund" stands for any other word.
TransactionTypes == {"credit", "debit", "refund"}

\* Account ids a request may name; 0 is the id of no row.
AccountIds == 0..MaxAccounts

TransactionIds == 0..MaxTransactions

ExpenseIds == 0..MaxExpenses

\* Payer names offered to POST /api/split-expense.
PayerNames == {<<"A">>, <<"a">>}

\* Amounts offered to POST /api/split-expense:
\* "100.00", "50.00", "0.25", "0.02", "0", "-5.00" and "abc".
SplitAmounts ==
    {Decimal(10000), Decimal(5000), Decimal(25), Decimal(2), Decimal(0),
     Decimal(0 - 500), Malformed}

\* The description every POST /api/split-expense of the model carries.
Description == <<"d">>

\* Bodies offered to PUT /api/split-history/:id.  Every field of
\* insertSplitExpenseSchema.partial() may be left out: {}, {amount: "50.00"},
\* {payerName: "B"}, {description: "e"}, {payerName: "B", amount: "50.00"} and
\* {amount: "abc"}.
Patches ==
    {[payerName |-> Undefined, amount |-> NotGiven, description |-> Undefined],
     [payerName |-> Undefined, amount |-> Given(Decimal(5000)),
      description |-> Undefined],
     [payerName |-> Given(<<"B">>), amount |-> NotGiven,
      description |-> Undefined],
     [payerName |-> Undefined, amount |-> NotGiven, description |-> Given(<<"e">>)],
     [payerName |-> Given(<<"B">>), amount |-> Given(Decimal(5000)),
      description |-> Undefined],
     [payerName |-> Undefined, amount |-> Given(Malformed),
      description |-> Undefined]}

\* req.body.participants offered to POST /api/split-expense: left out, "", " ",
\* "A,B", "A,B,C", "A,B,C,D", " A ,A" and "A,,B".
ParticipantTexts ==
    {Undefined,
     Given(<< >>),
     Given(<<" ">>),
     Given(<<"A", ",", "B">>),
     Given(<<"A", ",", "B", ",", "C">>),
     Given(<<"A", ",", "B", ",", "C", ",", "D">>),
     Given(<<" ", "A", " ", ",", "A">>),
     Given(<<"A", ",", ",", "B">>)}

\* req.user!.id and the id the request names (an accountId of the body, an :id
\* of the path); 0 when it names none.
Request(user, id) == [user |-> user, id |-> id]

\* The connections on which requests may overlap: two.
Connections == {1, 2}

\* A connection with no createTransaction call under way.
NoCall == [pc |-> "idle", transaction |-> << >>, row |-> << >>,
           account |-> << >>]

NoCalls == [of |-> [c \in Connections |-> NoCall], order |-> << >>]

Respond(op, status, body) == [op |-> op, status |-> status, body |-> body]

NoBody == << >>

----------------------------------------------------------------------------
(* DatabaseStorage: bank accounts and transactions *)

\* db.insert(bankAccounts).values({ ...account, userId }).returning()
createBankAccount(userId, account) ==
    [id |-> created.accounts + 1,
     userId |-> userId,
     name |-> account.name,
     balance |-> IF account.balance.given THEN PgNumeric(account.balance.text)
                 ELSE PgNumeric(Decimal(0)),
     createdAt |-> now]

\* db.select().from(bankAccounts).where(eq(bankAccounts.id, id)): the rows found.
getBankAccount(id) == SelectSeq(bankAccounts, LAMBDA row : row.id = id)

\* A slip in the statement: the where clause is missing, every account is set.
updateEveryBankAccountBalance(accountId, newBalance) ==
    [i \in DOMAIN bankAccounts |->
        [bankAccounts[i] EXCEPT !.balance = PgNumeric(newBalance)]]

\* db.update(bankAccounts).set({ balance: newBalance }).where(eq(id, accountId))
updateBankAccountBalance(accountId, newBalance) ==
    [i \in DOMAIN bankAccounts |->
        IF bankAccounts[i].id = accountId
        THEN [bankAccounts[i] EXCEPT !.balance = PgNumeric(newBalance)]
        ELSE bankAccounts[i]]

\* A slip of caution: a debit beyond the balance empties the account and goes
\* no further.
NewBalanceFloorsAtZero(currentBalance, transactionAmount, type) ==
    IF type = "credit"
    THEN FloatAdd(currentBalance, transactionAmount, 1)
    ELSE IF transactionAmount.num > currentBalance.num
    THEN {[num |-> 0, den |-> 1, err |-> 0]}
    ELSE FloatAdd(currentBalance, transactionAmount, 0 - 1)

\* A slip in the branch: only 'debit' subtracts, any other word changes nothing.
NewBalanceOnlyKnownKinds(currentBalance, transactionAmount, type) ==
    IF type = "credit"
    THEN FloatAdd(currentBalance, transactionAmount, 1)
    ELSE IF type = "debit"
    THEN FloatAdd(currentBalance, transactionAmount, 0 - 1)
    ELSE {currentBalance}

\* A slip in the branch: the amount is added whatever the type.
NewBalanceAlwaysAdds(currentBalance, transactionAmount, type) ==
    FloatAdd(currentBalance, transactionAmount, 1)

\* transaction.type === 'credit' ? currentBalance + transactionAmount
\*                               : currentBalance - transactionAmount
NewBalance(currentBalance, transactionAmount, type) ==
    IF type = "credit"
    THEN FloatAdd(currentBalance, transactionAmount, 1)
    ELSE FloatAdd(currentBalance, transactionAmount, 0 - 1)

\* The texts createTransaction may hand to updateBankAccountBalance:
\* newBalance.toString() over the doubles the two parseFloat calls may yield.
NewBalanceTexts(account, transaction) ==
    UNION { UNION { UNION { numberToString(nb) :
                            nb \in NewBalance(cur, amt, transaction.type) } :
                    amt \in parseFloat(transaction.amount) } :
            cur \in parseFloat(PgText(account.balance)) }

\* The row db.insert(transactions).values(transaction).returning() stores.
TransactionRow(transaction) ==
    [id |-> created.transactions + 1,
     accountId |-> transaction.accountId,
     amount |-> PgNumeric(transaction.amount),
     type |-> transaction.type,
     date |-> now]

\* createTransaction: insert the row, read the account, write its new balance.
createTransaction(transaction) ==
    LET found == getBankAccount(transaction.accountId)
    IN  /\ transaction.amount.ok
        /\ transactions' = Append(transactions, TransactionRow(transaction))
        /\ created' = [created EXCEPT !.transactions = @ + 1]
        /\ IF found # << >>
           THEN \E newBalance \in NewBalanceTexts(found[1], transaction) :
                    bankAccounts' =
                        updateBankAccountBalance(transaction.accountId, newBalance)
           ELSE bankAccounts' = bankAccounts

\* A slip in the statement: the where clause is missing.
deleteEveryTransaction(id) == << >>

\* db.delete(transactions).where(eq(transactions.id, id))
deleteTransaction(id) == SelectSeq(transactions, LAMBDA row : row.id # id)

----------------------------------------------------------------------------
(* Routes: bank accounts and transactions *)

\* app.post("/api/accounts", requireAuth, ...)
PostAccounts(user, name, balance) ==
    LET account == createBankAccount(user, [name |-> name, balance |-> balance])
    IN  /\ created.accounts < MaxAccounts
        /\ bankAccounts' = Append(bankAccounts, account)
        /\ created' = [created EXCEPT !.accounts = @ + 1]
        /\ posted' = Append(posted, [opening |-> account.balance,
                                     credit |-> 0, debit |-> 0, other |-> FALSE])
        /\ request' = Request(user, 0)
        /\ UNCHANGED aside
        /\ response' = Respond("createAccount", 201, account)
        /\ UNCHANGED <<transactions, splitVars>>

\* A slip in the condition: only a missing account is refused.
AccessDeniedOnlyMissing(found, user) == found = << >>

\* !account || account.userId !== req.user!.id
AccessDenied(found, user) ==
    IF found = << >> THEN TRUE ELSE found[1].userId # user

\* The history after a call that stored `row` was answered 201.
Posted(row) ==
    [posted EXCEPT ![row.accountId] =
        IF row.type = "credit" THEN [@ EXCEPT !.credit = @ + row.amount]
        ELSE IF row.type = "debit" THEN [@ EXCEPT !.debit = @ + row.amount]
        ELSE [@ EXCEPT !.other = TRUE]]

\* app.post("/api/transactions", requireAuth, ...)
PostTransactions(user, accountId, amount, type) ==
    LET found == getBankAccount(accountId)
        validatedData == [accountId |-> accountId, amount |-> amount,
                          type |-> type]
    IN  /\ UNCHANGED splitVars
        /\ request' = Request(user, accountId)
        /\ UNCHANGED aside
        /\ \/ /\ AccessDenied(found, user)
              /\ response' = Respond("addTransaction", 403, NoBody)
              /\ UNCHANGED <<ledgerVars, created>>
           \/ /\ ~AccessDenied(found, user)
              /\ ~amount.ok
              /\ response' = Respond("addTransaction", 500, NoBody)
              /\ UNCHANGED <<ledgerVars, created>>
           \/ /\ ~AccessDenied(found, user)
              /\ created.transactions < MaxTransactions
              /\ createTransaction(validatedData)
              /\ response' = Respond("addTransaction", 201,
                                     TransactionRow(validatedData))
              /\ posted' = Posted(TransactionRow(validatedData))

\* app.delete("/api/transactions/:id", requireAuth, ...)
DeleteTransactionsId(user, id) ==
    /\ transactions' = deleteTransaction(id)
    /\ request' = Request(user, id)
    /\ UNCHANGED aside
    /\ response' = Respond("deleteTransaction", 204, NoBody)
    /\ UNCHANGED <<bankAccounts, posted, created, splitVars>>

----------------------------------------------------------------------------
(* POST /api/transactions, await by await.  createTransaction is three       *)
(* statements on the pool, each awaited on its own and none inside a         *)
(* db.transaction: the insert, the read of the account and the update of its *)
(* balance.  Between two of them another request may run.  The ownership     *)
(* check of the route is taken together with the insert: no route changes or *)
(* removes an account, so nothing can come between them.                     *)

\* A slip in the write: the balance is read again when it is written.
AccountReadAfresh(call) == getBankAccount(call.transaction[1].accountId)

\* const account = await this.getBankAccount(...): the row that was read, which
\* the later statements of the call compute from.
AccountRead(call) == call.account

\* The route up to the first statement of createTransaction: parse, ownership
\* check, db.insert(transactions).values(transaction).returning().
BeginTransaction(c, user, accountId, amount, type) ==
    LET found == getBankAccount(accountId)
        validatedData == [accountId |-> accountId, amount |-> amount,
                          type |-> type]
    IN  /\ calls.of[c].pc = "idle"
        /\ amount.ok
        /\ request' = Request(user, accountId)
        /\ UNCHANGED <<bankAccounts, posted, now, splitVars>>
        /\ \/ /\ AccessDenied(found, user)
              /\ response' = Respond("addTransaction", 403, NoBody)
              /\ UNCHANGED <<transactions, created, calls>>
           \/ /\ ~AccessDenied(found, user)
              /\ created.transactions < MaxTransactions
              /\ transactions' =
                    Append(transactions, TransactionRow(validatedData))
              /\ created' = [created EXCEPT !.transactions = @ + 1]
              /\ calls' = [calls EXCEPT !.of[c] =
                            [pc |-> "inserted",
                             transaction |-> <<validatedData>>,
                             row |-> <<TransactionRow(validatedData)>>,
                             account |-> << >>]]
              /\ UNCHANGED response

\* const account = await this.getBankAccount(transaction.accountId)
ReadBalance(c) ==
    LET call == calls.of[c]
    IN  /\ call.pc = "inserted"
        /\ calls' = [calls EXCEPT
                        !.of[c] = [call EXCEPT
                            !.pc = "read",
                            !.account =
                                getBankAccount(call.transaction[1].accountId)],
                        !.order = Append(@, [connection |-> c, step |-> "read"])]
        /\ UNCHANGED <<bankAccounts, transactions, splitVars, created, request,
                       response, posted, now>>

\* if (account) { ... await this.updateBankAccountBalance(...) } and the answer
\* of the route, res.status(201).json(transaction).
WriteBalance(c) ==
    LET call == calls.of[c]
        transaction == call.transaction[1]
    IN  /\ call.pc = "read"
        /\ IF AccountRead(call) # << >>
           THEN \E newBalance \in
                        NewBalanceTexts(AccountRead(call)[1], transaction) :
                    bankAccounts' =
                        updateBankAccountBalance(transaction.accountId,
                                                 newBalance)
           ELSE bankAccounts' = bankAccounts
        /\ calls' = [calls EXCEPT
                        !.of[c] = [call EXCEPT !.pc = "done"],
                        !.order = Append(@, [connection |-> c, step |-> "write"])]
        /\ response' = Respond("addTransaction", 201, call.row[1])
        /\ posted' = Posted(call.row[1])
        /\ UNCHANGED <<transactions, splitVars, created, request, now>>

----------------------------------------------------------------------------
(* DatabaseStorage: split expenses and their participants *)

\* db.insert(splitExpenses).values({ ...expense, userId }).returning()
createSplitExpense(userId, expense) ==
    [id |-> created.expenses + 1,
     userId |-> userId,
     payerName |-> expense.payerName,
     amount |-> PgNumeric(expense.amount),
     description |-> expense.description,
     date |-> now]

\* db.insert(splitParticipants).values(participants.map(p => ({ ...p, expenseId })))
createSplitParticipants(expenseId, participants) ==
    [i \in DOMAIN participants |->
        [expenseId |-> expenseId,
         name |-> participants[i].name,
         shareAmount |-> PgNumeric(participants[i].shareAmount)]]

\* .set(expense) on one row: the columns the patch names take its values.
SetColumns(row, expense) ==
    [row EXCEPT
        !.payerName = IF expense.payerName.given THEN expense.payerName.text
                      ELSE @,
        !.amount = IF expense.amount.given THEN PgNumeric(expense.amount.text)
                   ELSE @,
        !.description = IF expense.description.given
                        THEN expense.description.text ELSE @]

\* A slip in the statement: the where clause is missing, every row is set.
updateSplitExpenseEveryRow(id, expense) ==
    [i \in DOMAIN splitExpenses |-> SetColumns(splitExpenses[i], expense)]

\* db.update(splitExpenses).set(expense).where(eq(splitExpenses.id, id))
updateSplitExpense(id, expense) ==
    [i \in DOMAIN splitExpenses |->
        IF splitExpenses[i].id = id THEN SetColumns(splitExpenses[i], expense)
        ELSE splitExpenses[i]]

\* The participant rows of an expense, in insertion order.
SharesOf(expenseId) ==
    SelectSeq(splitParticipants, LAMBDA row : row.expenseId = expenseId)

\* db.delete(splitExpenses).where(eq(splitExpenses.id, id))
deleteSplitExpense(id) == SelectSeq(splitExpenses, LAMBDA row : row.id # id)

\* A slip in the cascade: the first row of the expense goes, the others stay.
CascadeOnlyFirst(id) ==
    LET first == {i \in DOMAIN splitParticipants :
                    /\ splitParticipants[i].expenseId = id
                    /\ \A j \in 1..(i - 1) : splitParticipants[j].expenseId # id}
    IN  [k \in 1..(Len(splitParticipants) - Cardinality(first)) |->
            splitParticipants[
                IF \E i \in first : i <= k THEN k + 1 ELSE k]]

\* A slip in the schema: the reference has no onDelete, the rows stay.
CascadeNothing(id) == splitParticipants

\* expenseId ... references(() => splitExpenses.id, { onDelete: "cascade" }):
\* the participant rows left when expense `id` is deleted.
CascadeParticipants(id) ==
    SelectSeq(splitParticipants, LAMBDA row : row.expenseId # id)

----------------------------------------------------------------------------
(* Routes: split expenses *)

\* A slip in the list: a name that occurs again is merged into its first
\* occurrence.
ParticipantNamesMerged(participants) ==
    LET pieces == split(participants, ",")
        names == [i \in DOMAIN pieces |-> trim(pieces[i])]
        first == {i \in DOMAIN names : \A j \in 1..(i - 1) : names[j] # names[i]}
    IN  [k \in 1..Cardinality(first) |->
            names[CHOOSE i \in first :
                    Cardinality({j \in first : j < i}) = k - 1]]

\* participants.split(',').map((name) => name.trim())
ParticipantNames(participants) ==
    LET pieces == split(participants, ",")
    IN  [i \in DOMAIN pieces |-> trim(pieces[i])]

\* (parseFloat(amount) / participantNames.length).toFixed(2): the texts it may give.
ShareAmounts(amount, participantNames) ==
    UNION { { toFixed2(q) : q \in FloatDiv(x, Len(participantNames)) } :
            x \in parseFloat(amount) }

\* A net-settlement slip: names are paired with the share, but the first gets none.
SplitParticipantsFirstForgiven(participantNames, shareAmount) ==
    [i \in DOMAIN participantNames |->
        [name |-> participantNames[i],
         shareAmount |-> IF i = 1 THEN Decimal(0) ELSE shareAmount]]

\* participantNames.map((name) => ({ name, shareAmount }))
SplitParticipantsOf(participantNames, shareAmount) ==
    [i \in DOMAIN participantNames |->
        [name |-> participantNames[i], shareAmount |-> shareAmount]]

\* A slip in the filter: nobody is left out.
OwedToPayerUnfiltered(participantNames, payerName, shareAmount) ==
    [i \in DOMAIN participantNames |->
        [name |-> participantNames[i], amount |-> jsonNumber(shareAmount)]]

\* participantNames.filter(name => name !== payerName)
\*                 .map(name => ({ name, amount: parseFloat(shareAmount) }))
OwedToPayer(participantNames, payerName, shareAmount) ==
    LET owing == SelectSeq(participantNames, LAMBDA name : name # payerName)
    IN  [i \in DOMAIN owing |->
            [name |-> owing[i], amount |-> jsonNumber(shareAmount)]]

\* The body of the 201 answer: { ...splitExpense, participants, calculations }.
SplitResult(splitExpense, amount, participantNames, shareAmount) ==
    [splitExpense |-> splitExpense,
     participants |-> SplitParticipantsOf(participantNames, shareAmount),
     totalAmount |-> jsonNumber(amount),
     sharePerPerson |-> jsonNumber(shareAmount),
     owedToPayer |->
        OwedToPayer(participantNames, splitExpense.payerName, shareAmount)]

\* app.post("/api/split-expense", requireAuth, ...)
PostSplitExpense(user, payerName, amount, participants) ==
    LET validatedExpenseData == [payerName |-> payerName, amount |-> amount,
                                 description |-> Description]
        splitExpense == createSplitExpense(user, validatedExpenseData)
    IN  /\ UNCHANGED ledgerVars
        /\ request' = Request(user, 0)
        /\ UNCHANGED aside
        /\ \/ /\ ~amount.ok
              /\ response' = Respond("createSplit", 500, NoBody)
              /\ UNCHANGED <<splitVars, created>>
           \/ /\ amount.ok
              /\ ~participants.given
              /\ created.expenses < MaxExpenses
              /\ splitExpenses' = Append(splitExpenses, splitExpense)
              /\ created' = [created EXCEPT !.expenses = @ + 1]
              /\ response' = Respond("createSplit", 500, NoBody)
              /\ UNCHANGED splitParticipants
           \/ /\ amount.ok
              /\ participants.given
              /\ created.expenses < MaxExpenses
              /\ splitExpenses' = Append(splitExpenses, splitExpense)
              /\ created' = [created EXCEPT !.expenses = @ + 1]
              /\ LET participantNames == ParticipantNames(participants.text)
                 IN  \E shareAmount \in ShareAmounts(amount, participantNames) :
                        /\ splitParticipants' =
                             splitParticipants \o
                                createSplitParticipants(splitExpense.id,
                                    SplitParticipantsOf(participantNames,
                                                        shareAmount))
                        /\ response' =
                             Respond("createSplit", 201,
                                     SplitResult(splitExpense, amount,
                                                 participantNames, shareAmount))

\* The statement updateSplitExpense sends fails: .set() of no column at all is
\* refused by the query builder, a text that is no number by the numeric column.
UpdateFails(expense) ==
    \/ ~expense.payerName.given /\ ~expense.amount.given
            /\ ~expense.description.given
    \/ expense.amount.given /\ ~expense.amount.text.ok

\* app.put("/api/split-history/:id", requireAuth, ...)
PutSplitHistoryId(user, id, validatedData) ==
    /\ request' = Request(user, id)
    /\ UNCHANGED aside
    /\ UNCHANGED <<ledgerVars, created, splitParticipants>>
    /\ \/ /\ UpdateFails(validatedData)
          /\ response' = Respond("updateSplit", 500, NoBody)
          /\ UNCHANGED splitExpenses
       \/ /\ ~UpdateFails(validatedData)
          /\ splitExpenses' = updateSplitExpense(id, validatedData)
          /\ response' = Respond("updateSplit", 204, NoBody)

\* app.delete("/api/split-history/:id", requireAuth, ...)
DeleteSplitHistoryId(user, id) ==
    /\ splitExpenses' = deleteSplitExpense(id)
    /\ splitParticipants' = CascadeParticipants(id)
    /\ request' = Request(user, id)
    /\ UNCHANGED aside
    /\ response' = Respond("deleteSplit", 204, NoBody)
    /\ UNCHANGED <<ledgerVars, created>>

----------------------------------------------------------------------------
(* Listings.  A select returns the rows its where clause keeps; SQL fixes    *)
(* their order only as far as ORDER BY says, so a listing is one of several  *)
(* sequences: any order of the rows without ORDER BY, any order that is      *)
(* sorted on the key with it (rows with equal keys come in any order).       *)

\* The orders in which a select without ORDER BY may return `rows`.
Unordered(rows) ==
    LET n == Len(rows)
        orders == {o \in [1..n -> 1..n] :
                    \A i \in 1..n : \A j \in 1..n : i # j => o[i] # o[j]}
    IN  {[k \in 1..n |-> rows[o[k]]] : o \in orders}

\* .orderBy(desc(<table>.date)): newest first.
OrderByDescDate(rows) ==
    {q \in Unordered(rows) :
        \A i \in DOMAIN q : \A j \in DOMAIN q : i < j => q[i].date >= q[j].date}

\* .orderBy(desc(bankAccounts.createdAt))
OrderByDescCreatedAt(rows) ==
    {q \in Unordered(rows) :
        \A i \in DOMAIN q : \A j \in DOMAIN q :
            i < j => q[i].createdAt >= q[j].createdAt}

\* getBankAccountsByUserId: the listings it may return.
getBankAccountsByUserId(userId) ==
    OrderByDescCreatedAt(
        SelectSeq(bankAccounts, LAMBDA row : row.userId = userId))

\* getTransactionsByAccountId: the listings it may return.
getTransactionsByAccountId(accountId) ==
    OrderByDescDate(
        SelectSeq(transactions, LAMBDA row : row.accountId = accountId))

\* A row of transactions innerJoin bankAccounts, as getTransactionsByUserId
\* selects it.
JoinedRow(transaction, account) ==
    [id |-> transaction.id,
     accountId |-> transaction.accountId,
     amount |-> transaction.amount,
     type |-> transaction.type,
     date |-> transaction.date,
     accountName |-> account.name]

\* A slip in the where clause: the join is not narrowed to the user.
getTransactionsOfEveryUser(userId) ==
    LET kept == SelectSeq(transactions,
                    LAMBDA row : getBankAccount(row.accountId) # << >>)
    IN  OrderByDescDate(
            [i \in DOMAIN kept |->
                JoinedRow(kept[i], getBankAccount(kept[i].accountId)[1])])

\* getTransactionsByUserId: the listings it may return.
getTransactionsByUserId(userId) ==
    LET kept == SelectSeq(transactions,
                    LAMBDA row :
                        IF getBankAccount(row.accountId) = << >> THEN FALSE
                        ELSE getBankAccount(row.accountId)[1].userId = userId)
    IN  OrderByDescDate(
            [i \in DOMAIN kept |->
                JoinedRow(kept[i], getBankAccount(kept[i].accountId)[1])])

\* { ...expense, participants }
WithParticipants(expense, participants) ==
    [id |-> expense.id,
     userId |-> expense.userId,
     payerName |-> expense.payerName,
     amount |-> expense.amount,
     description |-> expense.description,
     date |-> expense.date,
     participants |-> participants]

\* A slip in the lookup: the where clause is missing, every expense is given
\* all the participant rows.
ParticipantsOfAll(expenseId) == Unordered(splitParticipants)

\* db.select().from(splitParticipants).where(eq(expenseId, expense.id)), with
\* no ORDER BY: the sequences it may return.
ParticipantsOf(expenseId) == Unordered(SharesOf(expenseId))

\* getSplitExpensesByUserId: the listings it may return.
getSplitExpensesByUserId(userId) ==
    LET expenses == OrderByDescDate(
                        SelectSeq(splitExpenses,
                                  LAMBDA row : row.userId = userId))
        lookups(q) ==
            {f \in [DOMAIN q -> UNION {ParticipantsOf(q[k].id) : k \in DOMAIN q}] :
                \A k \in DOMAIN q : f[k] \in ParticipantsOf(q[k].id)}
    IN  UNION {{[k \in DOMAIN q |-> WithParticipants(q[k], f[k])] :
                    f \in lookups(q)} : q \in expenses}

\* app.get("/api/accounts", requireAuth, ...)
GetAccounts(user) ==
    /\ request' = Request(user, 0)
    /\ \E accounts \in getBankAccountsByUserId(user) :
            response' = Respond("listAccounts", 200, accounts)
    /\ UNCHANGED <<ledgerVars, splitVars, created, aside>>

\* app.get("/api/transactions", requireAuth, ...)
GetTransactions(user) ==
    /\ request' = Request(user, 0)
    /\ \E result \in getTransactionsByUserId(user) :
            response' = Respond("listTransactions", 200, result)
    /\ UNCHANGED <<ledgerVars, splitVars, created, aside>>

\* app.get("/api/accounts/:accountId/transactions", requireAuth, ...)
GetAccountsAccountIdTransactions(user, accountId) ==
    /\ request' = Request(user, accountId)
    /\ UNCHANGED <<ledgerVars, splitVars, created, aside>>
    /\ \/ /\ AccessDenied(getBankAccount(accountId), user)
          /\ response' = Respond("listAccountTransactions", 403, NoBody)
       \/ /\ ~AccessDenied(getBankAccount(accountId), user)
          /\ \E result \in getTransactionsByAccountId(accountId) :
                response' = Respond("listAccountTransactions", 200, result)

\* app.get("/api/split-history", requireAuth, ...)
GetSplitHistory(user) ==
    /\ request' = Request(user, 0)
    /\ \E result \in getSplitExpensesByUserId(user) :
            response' = Respond("listSplits", 200, result)
    /\ UNCHANGED <<ledgerVars, splitVars, created, aside>>

\* The database clock moves on between two statements, or does not: rows
\* inserted by requests that arrive together get the same defaultNow().
Tick ==
    /\ now < MaxClock
    /\ now' = now + 1
    /\ UNCHANGED <<ledgerVars, splitVars, created, request, response, calls>>

----------------------------------------------------------------------------
(* The state machines *)

Init ==
    /\ bankAccounts = << >>
    /\ transactions = << >>
    /\ splitExpenses = << >>
    /\ splitParticipants = << >>
    /\ created = [accounts |-> 0, transactions |-> 0, expenses |-> 0]
    /\ request = Request("nobody", 0)
    /\ response = Respond("none", 0, NoBody)
    /\ posted = << >>
    /\ now = 0
    /\ calls = NoCalls

LedgerNext ==
    \/ \E user \in Users, balance \in OpeningBalances :
            PostAccounts(user, "Main", balance)
    \/ \E user \in Users, accountId \in AccountIds,
          amount \in TransactionAmounts, type \in TransactionTypes :
            PostTransactions(user, accountId, amount, type)
    \/ \E user \in Users, id \in TransactionIds :
            DeleteTransactionsId(user, id)

LedgerSpec == Init /\ [][LedgerNext]_vars

SplitNext ==
    \/ \E user \in Users, payerName \in PayerNames, amount \in SplitAmounts,
          participants \in ParticipantTexts :
            PostSplitExpense(user, payerName, amount, participants)
    \/ \E user \in Users, id \in ExpenseIds :
            DeleteSplitHistoryId(user, id)

SplitSpec == Init /\ [][SplitNext]_vars

\* Listing transactions: accounts named Main or Cash opened with no balance
\* given, credits of "12.50", deletions, the clock and the three listings of
\* the ledger.
TransactionListNext ==
    \/ Tick
    \/ \E user \in Users, name \in {"Main", "Cash"} :
            PostAccounts(user, name, NotGiven)
    \/ \E user \in Users, accountId \in AccountIds :
            PostTransactions(user, accountId, Decimal(1250), "credit")
    \/ \E user \in Users, id \in TransactionIds :
            DeleteTransactionsId(user, id)
    \/ \E user \in Users : GetAccounts(user)
    \/ \E user \in Users : GetTransactions(user)
    \/ \E user \in Users, accountId \in AccountIds :
            GetAccountsAccountIdTransactions(user, accountId)

TransactionListSpec == Init /\ [][TransactionListNext]_vars

\* Listing split expenses: 100.00 paid by A over "A,B", deletions, the clock
\* and the listing.
SplitListNext ==
    \/ Tick
    \/ \E user \in Users :
            PostSplitExpense(user, <<"A">>, Decimal(10000),
                             Given(<<"A", ",", "B">>))
    \/ \E user \in Users, id \in ExpenseIds :
            DeleteSplitHistoryId(user, id)
    \/ \E user \in Users : GetSplitHistory(user)

SplitListSpec == Init /\ [][SplitListNext]_vars

\* Every route of the application, one request at a time, over a narrow choice
\* of requests: accounts opened with no balance given, credits of "12.50",
\* 100.00 split over "A,B", and a patch of the amount to "50.00".
RoutesNext ==
    \/ \E user \in Users : PostAccounts(user, "Main", NotGiven)
    \/ \E user \in Users : GetAccounts(user)
    \/ \E user \in Users, accountId \in AccountIds :
            PostTransactions(user, accountId, Decimal(1250), "credit")
    \/ \E user \in Users : GetTransactions(user)
    \/ \E user \in Users, accountId \in AccountIds :
            GetAccountsAccountIdTransactions(user, accountId)
    \/ \E user \in Users, id \in TransactionIds :
            DeleteTransactionsId(user, id)
    \/ \E user \in Users :
            PostSplitExpense(user, <<"A">>, Decimal(10000),
                             Given(<<"A", ",", "B">>))
    \/ \E user \in Users : GetSplitHistory(user)
    \/ \E user \in Users, id \in ExpenseIds :
            PutSplitHistoryId(user, id,
                [payerName |-> Undefined, amount |-> Given(Decimal(5000)),
                 description |-> Undefined])
    \/ \E user \in Users, id \in ExpenseIds :
            DeleteSplitHistoryId(user, id)

RoutesSpec == Init /\ [][RoutesNext]_vars

\* Two connections posting transactions that may overlap, on accounts opened
\* with no balance given, over the amounts "12.50" and "5.00" as credit or debit.
ConcurrentNext ==
    \/ \E user \in Users : PostAccounts(user, "Main", NotGiven)
    \/ \E c \in Connections, user \in Users, accountId \in AccountIds,
          amount \in {Decimal(1250), Decimal(500)},
          type \in {"credit", "debit"} :
            BeginTransaction(c, user, accountId, amount, type)
    \/ \E c \in Connections : ReadBalance(c)
    \/ \E c \in Connections : WriteBalance(c)

ConcurrentSpec == Init /\ [][ConcurrentNext]_vars

\* The routes that address a row by the :id of the path, over split expenses
\* created from a narrow choice of requests: 100.00 paid by A, over "A,B" or
\* " A ,A".  No transaction is ever posted here, so every id DELETE
\* /api/transactions/:id is given names no row.
IdRoutesNext ==
    \/ \E user \in Users,
          participants \in {Given(<<"A", ",", "B">>),
                            Given(<<" ", "A", " ", ",", "A">>)} :
            PostSplitExpense(user, <<"A">>, Decimal(10000), participants)
    \/ \E user \in Users, id \in ExpenseIds, validatedData \in Patches :
            PutSplitHistoryId(user, id, validatedData)
    \/ \E user \in Users, id \in ExpenseIds :
            DeleteSplitHistoryId(user, id)
    \/ \E user \in Users, id \in TransactionIds :
            DeleteTransactionsId(user, id)

IdRoutesSpec == Init /\ [][IdRoutesNext]_vars

\* The whole application.  The ledger routes leave the split tables alone and
\* the split routes the ledger tables; LedgerSpec, SplitSpec and IdRoutesSpec
\* are the parts of it the properties below are checked on.
Next ==
    \/ LedgerNext \/ SplitNext \/ IdRoutesNext \/ ConcurrentNext
    \/ TransactionListNext \/ SplitListNext \/ RoutesNext

Spec == Init /\ [][Next]_vars

----------------------------------------------------------------------------
(* Ledger properties.  NetOfRows and InvalidArgument are the contract's words, *)
(* not the program's.                                                          *)

RECURSIVE NetOfRows(_, _)
\* Credits minus debits over the rows of `rows` that belong to `accountId`.
NetOfRows(rows, accountId) ==
    IF rows = << >> THEN 0
    ELSE LET row == Head(rows)
             term == IF row.accountId # accountId THEN 0
                     ELSE IF row.type = "credit" THEN row.amount
                     ELSE IF row.type = "debit" THEN 0 - row.amount
                     ELSE 0
         IN  term + NetOfRows(Tail(rows), accountId)

\* The answer the contract calls InvalidArgument.
InvalidArgument(r) == r.status = 400

\* C1: after any sequence of successful addTransaction calls (credits and
\* debits, one at a time) on an account created with balance B0, the stored
\* balance is B0 + (sum of credit amounts) - (sum of debit amounts), exact in
\* minor units.
C1_BalanceIsOpeningPlusCreditsMinusDebits ==
    \A i \in DOMAIN bankAccounts :
        LET h == posted[bankAccounts[i].id]
        IN  ~h.other => bankAccounts[i].balance = h.opening + h.credit - h.debit

\* C1 witness: an account opened with 10.10 holds 35.10 after two credits of 12.50.
C1_Witness ==
    \E i \in DOMAIN bankAccounts :
        LET h == posted[bankAccounts[i].id]
        IN  /\ h.opening = 1010 /\ h.credit = 2500 /\ h.debit = 0 /\ ~h.other
            /\ bankAccounts[i].balance = 3510
            /\ response.op = "addTransaction" /\ response.status = 201

\* C2: in every reachable state each account's stored balance is its initial
\* balance plus the net (credits minus debits) of the transactions that
\* currently exist for it.
C2_BalanceIsNetOfExistingTransactions ==
    \A i \in DOMAIN bankAccounts :
        LET h == posted[bankAccounts[i].id]
        IN  ~h.other =>
                bankAccounts[i].balance =
                    h.opening + NetOfRows(transactions, bankAccounts[i].id)

\* C3: addTransaction with a non-positive amount (0 or -5.00), on an account the
\* principal owns, is answered InvalidArgument and writes nothing: no
\* transaction row, no change of balance.
C3_NonPositiveAmountRejected ==
    [][\A user \in Users, accountId \in AccountIds,
          amount \in TransactionAmounts, type \in TransactionTypes :
            ( /\ amount.ok /\ amount.cents <= 0
              /\ ~AccessDenied(getBankAccount(accountId), user)
              /\ PostTransactions(user, accountId, amount, type) )
            => ( /\ InvalidArgument(response')
                 /\ UNCHANGED <<transactions, bankAccounts>> )]_vars

----------------------------------------------------------------------------
(* Split properties.  SumOfShares and NonEmptyNames are the contract's words,  *)
(* not the program's.                                                          *)

RECURSIVE SumOfShares(_)
SumOfShares(rows) ==
    IF rows = << >> THEN 0 ELSE Head(rows).shareAmount + SumOfShares(Tail(rows))

\* The last request was a createSplit answered 201: the expense it returned
\* and that expense's rows are in the tables.
SplitCreated == response.op = "createSplit" /\ response.status = 201

CreatedExpense == response.body.splitExpense

NonEmptyNames(names) == SelectSeq(names, LAMBDA name : name # << >>)

\* C4: createSplit whose participant list is empty, or holds only entries that
\* are empty once trimmed, is answered InvalidArgument and persists nothing.
C4_EmptyParticipantListRejected ==
    [][\A user \in Users, payerName \in PayerNames, amount \in SplitAmounts,
          participants \in ParticipantTexts :
            ( /\ amount.ok /\ amount.cents > 0
              /\ participants.given
              /\ NonEmptyNames(ParticipantNames(participants.text)) = << >>
              /\ PostSplitExpense(user, payerName, amount, participants) )
            => ( /\ InvalidArgument(response')
                 /\ UNCHANGED <<splitExpenses, splitParticipants>> )]_vars

\* C5: no createSplit request, however it ends, leaves a persisted expense
\* without participant rows.
C5_NoExpenseWithoutShares ==
    \A i \in DOMAIN splitExpenses : SharesOf(splitExpenses[i].id) # << >>

\* C6 as claimed: for every expense createSplit produces from a positive
\* amount, the sum of the shares is within one minor unit of the amount,
\* whatever the number of participants.
C6_SharesSumWithinOneMinorUnit ==
    (SplitCreated /\ CreatedExpense.amount > 0) =>
        Abs(SumOfShares(SharesOf(CreatedExpense.id)) - CreatedExpense.amount) <= 1

\* C6 as amended: the sum of the shares is within one minor unit of a positive
\* amount when the split has at most three participants.
C6_SharesSumWithinOneMinorUnitUpToThree ==
    (SplitCreated /\ CreatedExpense.amount > 0
        /\ Len(SharesOf(CreatedExpense.id)) <= 3) =>
        Abs(SumOfShares(SharesOf(CreatedExpense.id)) - CreatedExpense.amount) <= 1

\* C6 witness: 100.00 over three names is persisted as three shares summing to 99.99.
C6_Witness ==
    /\ SplitCreated
    /\ CreatedExpense.amount = 10000
    /\ Len(SharesOf(CreatedExpense.id)) = 3
    /\ SumOfShares(SharesOf(CreatedExpense.id)) = 9999

\* C7 as claimed: the sum of the n rounded shares differs from the amount by at
\* most (n - 1) x 0.005, i.e. twice the difference in cents is at most n - 1.
C7_SumWithinHalfCentPerShareButOne ==
    SplitCreated =>
        2 * Abs(SumOfShares(SharesOf(CreatedExpense.id)) - CreatedExpense.amount)
            <= Len(SharesOf(CreatedExpense.id)) - 1

\* C7 as amended: the sum of the n rounded shares differs from the amount by at
\* most n x 0.005.
C7_SumWithinHalfCentPerShare ==
    SplitCreated =>
        2 * Abs(SumOfShares(SharesOf(CreatedExpense.id)) - CreatedExpense.amount)
            <= Len(SharesOf(CreatedExpense.id))

\* C7 witness: 0.25 over two names gives 0.13 each, 0.01 = 2 x 0.005 over the amount.
C7_Witness ==
    /\ SplitCreated
    /\ CreatedExpense.amount = 25
    /\ Len(SharesOf(CreatedExpense.id)) = 2
    /\ SumOfShares(SharesOf(CreatedExpense.id)) = 26

\* C8: createSplit persists one row per participant of the list, the payer
\* included, all with the same share, the amount divided by the number of
\* participants and rounded to the nearest minor unit: 100.00 over three gives
\* 33.33 each, 50.00 over two gives 25.00 each and sums to 50.00.
C8_EqualRoundedShares ==
    SplitCreated =>
        LET rows == SharesOf(CreatedExpense.id)
            n == Len(response.body.participants)
            amount == CreatedExpense.amount
            share == response.body.sharePerPerson
        IN  /\ Len(rows) = n
            /\ \A i \in DOMAIN rows :
                    /\ rows[i].shareAmount = share
                    /\ rows[i].name = response.body.participants[i].name
            /\ 2 * Abs(n * share - amount) <= n
            /\ (amount = 10000 /\ n = 3) => share = 3333
            /\ (amount = 5000 /\ n = 2) =>
                    (share = 2500 /\ SumOfShares(rows) = 5000)

\* C8 witness: payer A, 100.00 over A, B and C: three rows of 33.33, A's included.
C8_Witness ==
    /\ SplitCreated
    /\ CreatedExpense.amount = 10000
    /\ CreatedExpense.payerName = <<"A">>
    /\ LET rows == SharesOf(CreatedExpense.id)
       IN  /\ Len(rows) = 3
           /\ rows[1].name = <<"A">> /\ rows[1].shareAmount = 3333
           /\ rows[2].shareAmount = 3333 /\ rows[3].shareAmount = 3333

\* C9: the owed-to-payer list of the answer holds exactly the participant
\* occurrences whose name is not the payer's, compared as exact strings, in
\* the order of the list, each with the common share.
C9_OwedToPayerExcludesExactPayerName ==
    SplitCreated =>
        LET rows == SharesOf(CreatedExpense.id)
            payer == CreatedExpense.payerName
            owing == SelectSeq(rows, LAMBDA row : row.name # payer)
            owed == response.body.owedToPayer
        IN  /\ Len(owed) = Len(owing)
            /\ \A i \in DOMAIN owed :
                    /\ owed[i].name = owing[i].name
                    /\ owed[i].amount = owing[i].shareAmount
                    /\ owed[i].name # payer

\* C9 witness: payer A, 100.00 over A, B and C: three rows are stored and the
\* list names B and C, at 33.33 each.
C9_Witness ==
    /\ SplitCreated
    /\ CreatedExpense.payerName = <<"A">>
    /\ Len(SharesOf(CreatedExpense.id)) = 3
    /\ response.body.owedToPayer =
            << [name |-> <<"B">>, amount |-> 3333],
               [name |-> <<"C">>, amount |-> 3333] >>

\* C10: entries that are empty once trimmed are dropped before counting: no
\* participant row has an empty name, and the share is the amount over the
\* number of non-empty names.
C10_EmptyNamesDropped ==
    /\ \A i \in DOMAIN splitParticipants : splitParticipants[i].name # << >>
    /\ SplitCreated =>
        LET names == [i \in DOMAIN response.body.participants |->
                        response.body.participants[i].name]
            n == Len(NonEmptyNames(names))
        IN  n > 0 =>
                2 * Abs(n * response.body.sharePerPerson - CreatedExpense.amount)
                    <= n

\* C11: createSplit keeps a name that occurs twice as two shares: for a list
\* of non-empty names the expense gets one row per occurrence, in the order of
\* the list, and every occurrence counts in the divisor of the share.
C11_DuplicateNamesKeptAsShares ==
    [][\A user \in Users, payerName \in PayerNames, amount \in SplitAmounts,
          participants \in ParticipantTexts :
            ( /\ response'.op = "createSplit" /\ request'.user = user
              /\ amount.ok /\ amount.cents > 0
              /\ participants.given
              /\ \A piece \in Range(split(participants.text, ",")) :
                    trim(piece) # << >>
              /\ PostSplitExpense(user, payerName, amount, participants) )
            => LET pieces == split(participants.text, ",")
                   rows == SelectSeq(splitParticipants',
                              LAMBDA row : row.expenseId = created'.expenses)
               IN  /\ response'.status = 201
                   /\ Len(rows) = Len(pieces)
                   /\ \A i \in DOMAIN rows :
                        /\ rows[i].name = trim(pieces[i])
                        /\ 2 * Abs(Len(pieces) * rows[i].shareAmount
                                     - PgNumeric(amount)) <= Len(pieces)]_vars

\* C11 witness: 100.00 over " A ,A" is stored as two rows named A of 50.00 each.
C11_Witness ==
    /\ SplitCreated
    /\ CreatedExpense.amount = 10000
    /\ LET rows == SharesOf(CreatedExpense.id)
       IN  /\ Len(rows) = 2
           /\ rows[1].name = <<"A">> /\ rows[2].name = <<"A">>
           /\ rows[1].shareAmount = 5000 /\ rows[2].shareAmount = 5000

\* C12: deleteSplit(id) removes the expense; right after it no participant
\* row references that id, and the expenses and shares of every other id are
\* as they were.
C12_DeleteSplitLeavesNoShares ==
    [][\A user \in Users, id \in ExpenseIds :
            DeleteSplitHistoryId(user, id)
            => /\ \A i \in DOMAIN splitExpenses' : splitExpenses'[i].id # id
               /\ \A i \in DOMAIN splitParticipants' :
                    splitParticipants'[i].expenseId # id
               /\ splitExpenses' =
                    SelectSeq(splitExpenses, LAMBDA row : row.id # id)
               /\ \A e \in ExpenseIds \ {id} :
                    SelectSeq(splitParticipants', LAMBDA row : row.expenseId = e)
                        = SharesOf(e)]_vars

\* C12 witness: two expenses were created, the one the last request named has
\* been deleted with its rows, and the other still has its shares.
C12_Witness ==
    /\ response.op = "deleteSplit"
    /\ created.expenses = 2
    /\ request.id \in 1..2
    /\ Len(splitExpenses) = 1
    /\ splitExpenses[1].id # request.id
    /\ SharesOf(request.id) = << >>
    /\ Len(SharesOf(splitExpenses[1].id)) >= 2

\* C13: updateSplit changes only the fields its patch names, and only of the
\* expense addressed; no participant row changes, even when the amount does.
\* So the shares of an expense are the same from its creation to its deletion.
C13_UpdateSplitTouchesOnlyNamedFields ==
    [][/\ \A user \in Users, id \in ExpenseIds, patch \in Patches :
            PutSplitHistoryId(user, id, patch)
            => /\ splitParticipants' = splitParticipants
               /\ Len(splitExpenses') = Len(splitExpenses)
               /\ \A i \in DOMAIN splitExpenses :
                    LET old == splitExpenses[i]
                        new == splitExpenses'[i]
                        set == old.id = id /\ response'.status = 204
                    IN  /\ new.id = old.id /\ new.userId = old.userId
                        /\ old.id # id => new = old
                        /\ new.payerName =
                             IF set /\ patch.payerName.given
                             THEN patch.payerName.text ELSE old.payerName
                        /\ new.amount =
                             IF set /\ patch.amount.given
                             THEN patch.amount.text.cents ELSE old.amount
                        /\ new.description =
                             IF set /\ patch.description.given
                             THEN patch.description.text ELSE old.description
       /\ \A e \in ExpenseIds :
            ( /\ \E i \in DOMAIN splitExpenses : splitExpenses[i].id = e
              /\ \E i \in DOMAIN splitExpenses' : splitExpenses'[i].id = e )
            => SelectSeq(splitParticipants', LAMBDA row : row.expenseId = e)
                    = SharesOf(e)]_vars

\* C13 witness: an expense of 100.00 was patched to 50.00 and its two shares
\* still are 50.00 each.
C13_Witness ==
    /\ response.op = "updateSplit" /\ response.status = 204
    /\ \E i \in DOMAIN splitExpenses :
            /\ splitExpenses[i].id = request.id
            /\ splitExpenses[i].amount = 5000
            /\ Len(SharesOf(request.id)) = 2
            /\ SumOfShares(SharesOf(request.id)) = 10000

----------------------------------------------------------------------------
(* Error outcomes and ownership.  PermissionDenied and NotFound are the        *)
(* contract's words, not the program's; Owner is the user a row belongs to.    *)

PermissionDenied(r) == r.status = 403

NotFound(r) == r.status = 404

\* The users owning the account `id` (none when there is no such account).
AccountOwners(id) ==
    {bankAccounts[i].userId : i \in {j \in DOMAIN bankAccounts :
                                        bankAccounts[j].id = id}}

\* The users owning the account of transaction `id`.
TransactionOwners(id) ==
    UNION {AccountOwners(transactions[i].accountId) :
            i \in {j \in DOMAIN transactions : transactions[j].id = id}}

\* The users owning the split expense `id`.
ExpenseOwners(id) ==
    {splitExpenses[i].userId : i \in {j \in DOMAIN splitExpenses :
                                         splitExpenses[j].id = id}}

\* C14: addTransaction on an account that exists and belongs to another user
\* is answered PermissionDenied and writes nothing: no transaction row is
\* added and no balance changes.
C14_ForeignAccountDenied ==
    [][( /\ response'.op = "addTransaction"
         /\ AccountOwners(request'.id) # {}
         /\ request'.user \notin AccountOwners(request'.id) )
       => ( /\ PermissionDenied(response')
            /\ UNCHANGED <<transactions, bankAccounts>> )]_vars

\* C14 witness: u2's addTransaction on an account of u1, which has a
\* transaction and a balance of its own, has been answered 403.
C14_Witness ==
    /\ response.op = "addTransaction" /\ response.status = 403
    /\ request.user = "u2"
    /\ AccountOwners(request.id) = {"u1"}
    /\ \E i \in DOMAIN transactions : transactions[i].accountId = request.id
    /\ \E i \in DOMAIN bankAccounts :
            bankAccounts[i].id = request.id /\ bankAccounts[i].balance = 1250

\* C15: a deleteTransaction naming a transaction of an account of another user
\* is answered PermissionDenied and the transaction remains.
C15_ForeignTransactionNotDeleted ==
    [][( /\ response'.op = "deleteTransaction"
         /\ TransactionOwners(request'.id) # {}
         /\ request'.user \notin TransactionOwners(request'.id) )
       => ( /\ PermissionDenied(response')
            /\ transactions' = transactions )]_vars

\* C16: an updateSplit or deleteSplit naming an expense of another user is
\* answered PermissionDenied and the expense and its shares stay as they were.
C16_ForeignExpenseUntouched ==
    [][( /\ response'.op \in {"updateSplit", "deleteSplit"}
         /\ ExpenseOwners(request'.id) # {}
         /\ request'.user \notin ExpenseOwners(request'.id) )
       => ( /\ PermissionDenied(response')
            /\ UNCHANGED <<splitExpenses, splitParticipants>> )]_vars

\* C17: addTransaction naming an account that does not exist is answered
\* NotFound, not PermissionDenied, and writes nothing.
C17_MissingAccountNotFound ==
    [][( /\ response'.op = "addTransaction"
         /\ AccountOwners(request'.id) = {} )
       => ( /\ NotFound(response')
            /\ ~PermissionDenied(response')
            /\ UNCHANGED <<transactions, bankAccounts>> )]_vars

\* C18: deleteTransaction, updateSplit and deleteSplit naming an id that no
\* transaction / expense has are answered NotFound, not success, and leave the
\* tables unchanged.
C18_MissingIdNotFound ==
    [][( \/ /\ response'.op = "deleteTransaction"
            /\ \A i \in DOMAIN transactions : transactions[i].id # request'.id
         \/ /\ response'.op \in {"updateSplit", "deleteSplit"}
            /\ ExpenseOwners(request'.id) = {} )
       => ( /\ NotFound(response')
            /\ UNCHANGED <<bankAccounts, transactions, splitExpenses,
                           splitParticipants>> )]_vars

\* C19: createSplit with an amount of zero or less is answered InvalidArgument
\* and persists neither an expense nor a participant row.
C19_NonPositiveSplitRejected ==
    [][\A user \in Users, payerName \in PayerNames, amount \in SplitAmounts,
          participants \in ParticipantTexts :
            ( /\ amount.ok /\ amount.cents <= 0
              /\ PostSplitExpense(user, payerName, amount, participants) )
            => ( /\ InvalidArgument(response')
                 /\ UNCHANGED <<splitExpenses, splitParticipants>> )]_vars

\* C20: in every reachable state every persisted transaction has an amount
\* above zero and a kind that is exactly 'credit' or 'debit'.
C20_TransactionsPositiveCreditOrDebit ==
    \A i \in DOMAIN transactions :
        /\ transactions[i].amount > 0
        /\ transactions[i].type \in {"credit", "debit"}

----------------------------------------------------------------------------
(* Overlapping requests *)

\* Both connections have finished a createTransaction on account `accountId`,
\* and both read its balance before either wrote it.
Overlapped(accountId) ==
    /\ \A c \in Connections :
            /\ calls.of[c].pc = "done"
            /\ calls.of[c].transaction[1].accountId = accountId
    /\ Len(calls.order) = 4
    /\ calls.order[1].step = "read" /\ calls.order[2].step = "read"

\* The call that wrote the balance last.
LastWriter == calls.of[calls.order[Len(calls.order)].connection]

\* C27: when two addTransaction requests on one account both read the balance
\* before either writes it, both rows persist, the stored balance is the
\* balance read plus or minus the amount of the request that wrote last, and
\* it differs from the opening balance plus the net of the account's rows.
C27_LastWriteWins ==
    \A i \in DOMAIN bankAccounts :
        Overlapped(bankAccounts[i].id) =>
            LET last == LastWriter.row[1]
                read == LastWriter.account[1].balance
            IN  /\ \A c \in Connections :
                    \E j \in DOMAIN transactions :
                        transactions[j] = calls.of[c].row[1]
                /\ bankAccounts[i].balance =
                        IF last.type = "credit" THEN read + last.amount
                        ELSE read - last.amount
                /\ bankAccounts[i].balance #
                        posted[bankAccounts[i].id].opening
                            + NetOfRows(transactions, bankAccounts[i].id)

\* C27 witness: credits of 12.50 and 5.00 on an empty account overlap, the
\* 5.00 is written last: two rows, balance 5.00 instead of 17.50.
C27_Witness ==
    /\ bankAccounts # << >>
    /\ Overlapped(bankAccounts[1].id)
    /\ calls.of[1].row[1].amount = 1250 /\ calls.of[1].row[1].type = "credit"
    /\ calls.of[2].row[1].amount = 500 /\ calls.of[2].row[1].type = "credit"
    /\ calls.order[4].connection = 2
    /\ Len(transactions) = 2
    /\ bankAccounts[1].balance = 500

----------------------------------------------------------------------------
(* Listings *)

\* Newest first: no entry is followed by one with a later date.
NewestFirst(listing) ==
    \A i \in DOMAIN listing : \A j \in DOMAIN listing :
        i < j => listing[i].date >= listing[j].date

\* The two sequences hold the same rows, each as many times.
SameRows(a, b) ==
    /\ Len(a) = Len(b)
    /\ \A x \in Range(a) \cup Range(b) :
            Cardinality({i \in DOMAIN a : a[i] = x})
                = Cardinality({i \in DOMAIN b : b[i] = x})

\* The ids of a listing are exactly `ids`, each once.
ListsExactly(listing, ids) ==
    /\ {listing[k].id : k \in DOMAIN listing} = ids
    /\ Len(listing) = Cardinality(ids)

\* C21: listSplits called twice by the same user with nothing else in between
\* returns the same expenses in the same order, each with the same shares in
\* the same order.
C21_ListSplitsTwiceSame ==
    [][( /\ response.op = "listSplits" /\ response'.op = "listSplits"
         /\ request'.user = request.user
         /\ UNCHANGED <<splitExpenses, splitParticipants>> )
       => response'.body = response.body]_vars

\* C22: a listing of transactions is newest first; by account it holds exactly
\* the existing transactions of that account, by user exactly the existing
\* transactions of the accounts that user owns, each with the name of its
\* account.
C22_ListTransactionsExactAndOrdered ==
    /\ (response.op = "listTransactions") =>
            /\ NewestFirst(response.body)
            /\ ListsExactly(response.body,
                    {transactions[i].id : i \in
                        {j \in DOMAIN transactions :
                            request.user \in
                                {bankAccounts[a].userId : a \in
                                    {b \in DOMAIN bankAccounts :
                                        bankAccounts[b].id =
                                            transactions[j].accountId}}}})
            /\ \A k \in DOMAIN response.body :
                    LET entry == response.body[k]
                    IN  /\ \E i \in DOMAIN transactions :
                            /\ transactions[i].id = entry.id
                            /\ transactions[i].accountId = entry.accountId
                            /\ transactions[i].amount = entry.amount
                            /\ transactions[i].type = entry.type
                            /\ transactions[i].date = entry.date
                        /\ \E a \in DOMAIN bankAccounts :
                            /\ bankAccounts[a].id = entry.accountId
                            /\ bankAccounts[a].name = entry.accountName
    /\ (response.op = "listAccountTransactions" /\ response.status = 200) =>
            /\ NewestFirst(response.body)
            /\ SameRows(response.body,
                        SelectSeq(transactions,
                                  LAMBDA row : row.accountId = request.id))

\* C22 witness: u1 lists two transactions, the later one first, one on the
\* account named Main and one on the account named Cash.
C22_Witness ==
    /\ response.op = "listTransactions"
    /\ request.user = "u1"
    /\ Len(response.body) = 2
    /\ response.body[1].date > response.body[2].date
    /\ response.body[1].accountName = "Cash"
    /\ response.body[2].accountName = "Main"

\* C23: listSplits(userId) returns exactly the existing expenses of userId,
\* newest first, each with exactly the participant rows that reference it.
C23_ListSplitsExactWithShares ==
    (response.op = "listSplits") =>
        /\ NewestFirst(response.body)
        /\ ListsExactly(response.body,
                {splitExpenses[i].id : i \in
                    {j \in DOMAIN splitExpenses :
                        splitExpenses[j].userId = request.user}})
        /\ \A k \in DOMAIN response.body :
                LET entry == response.body[k]
                IN  /\ \E i \in DOMAIN splitExpenses :
                        /\ splitExpenses[i].id = entry.id
                        /\ splitExpenses[i].userId = request.user
                        /\ splitExpenses[i].payerName = entry.payerName
                        /\ splitExpenses[i].amount = entry.amount
                        /\ splitExpenses[i].date = entry.date
                    /\ SameRows(entry.participants,
                                SelectSeq(splitParticipants,
                                    LAMBDA row : row.expenseId = entry.id))

\* C23 witness: u1 has listed one expense with its two shares while u2 has an
\* expense, with two shares of its own, that the listing leaves out.
C23_Witness ==
    /\ response.op = "listSplits"
    /\ request.user = "u1"
    /\ Len(response.body) = 1
    /\ Len(response.body[1].participants) = 2
    /\ Len(splitExpenses) = 2
    /\ Len(splitParticipants) = 4

----------------------------------------------------------------------------
(* Balances *)

\* The stored balance of account `id` in a table of accounts.
BalanceIn(accounts, id) ==
    accounts[CHOOSE i \in DOMAIN accounts : accounts[i].id = id].balance

\* C24: a debit is never refused for lack of funds: addTransaction with kind
\* debit and an amount above the balance, on an account of the caller, is
\* answered 201 and leaves the balance at balance - amount, below zero.
C24_DebitBeyondBalanceAccepted ==
    [][\A user \in Users, accountId \in AccountIds,
          amount \in TransactionAmounts :
            ( /\ response'.op = "addTransaction"
              /\ request' = Request(user, accountId)
              /\ amount.ok
              /\ ~AccessDenied(getBankAccount(accountId), user)
              /\ amount.cents > BalanceIn(bankAccounts, accountId)
              /\ PostTransactions(user, accountId, amount, "debit") )
            => ( /\ response'.status = 201
                 /\ BalanceIn(bankAccounts', accountId) =
                        BalanceIn(bankAccounts, accountId) - amount.cents
                 /\ BalanceIn(bankAccounts', accountId) < 0 )]_vars

\* C24 witness: a debit of 12.50 on an account opened with 10.10 has been
\* answered 201 and the balance is -2.40.
C24_Witness ==
    /\ response.op = "addTransaction" /\ response.status = 201
    /\ response.body.type = "debit" /\ response.body.amount = 1250
    /\ posted[request.id] =
            [opening |-> 1010, credit |-> 0, debit |-> 1250, other |-> FALSE]
    /\ BalanceIn(bankAccounts, request.id) = 0 - 240

C26_DeleteTransactionOnlyRemovesRow ==
    [][(response'.op = "deleteTransaction")
       => ( /\ transactions' =
                SelectSeq(transactions, LAMBDA row : row.id # request'.id)
            /\ UNCHANGED <<bankAccounts, splitExpenses, splitParticipants>> )]_vars

\* C26 witness: of two credits of 12.50 the first has been deleted; the second
\* is still there and the balance still is 25.00.
C26_Witness ==
    /\ response.op = "deleteTransaction"
    /\ request.id = 1
    /\ Len(transactions) = 1
    /\ transactions[1].id = 2
    /\ posted[transactions[1].accountId] =
            [opening |-> 0, credit |-> 2500, debit |-> 0, other |-> FALSE]
    /\ BalanceIn(bankAccounts, transactions[1].accountId) = 2500

----------------------------------------------------------------------------
(* The application as a whole *)

\* C28: a stored balance changes only by an addTransaction answered 201 on
\* that very account: addTransaction on another account, deleteTransaction,
\* the split routes and the listings leave it as it is, and no request sets a
\* balance once the account exists.
C28_BalanceChangesOnlyByOwnTransaction ==
    [][\A i \in DOMAIN bankAccounts :
            /\ i \in DOMAIN bankAccounts'
            /\ bankAccounts'[i].id = bankAccounts[i].id
            /\ bankAccounts'[i].balance # bankAccounts[i].balance
                => ( /\ response'.op = "addTransaction"
                     /\ response'.status = 201
                     /\ request'.id = bankAccounts[i].id
                     /\ response'.body.accountId = bankAccounts[i].id )]_vars

\* C28 witness: of two accounts one has been credited 12.50 and the other
\* still holds 0.00, while an expense and its shares exist.
C28_Witness ==
    /\ response.op = "addTransaction" /\ response.status = 201
    /\ Len(bankAccounts) = 2
    /\ BalanceIn(bankAccounts, request.id) = 1250
    /\ \E i \in DOMAIN bankAccounts :
            bankAccounts[i].id # request.id /\ bankAccounts[i].balance = 0
    /\ splitExpenses # << >> /\ splitParticipants # << >>

\* C30: in every reachable state every transaction references an existing
\* account and every participant row an existing expense.
C30_ReferentialIntegrity ==
    /\ \A i \in DOMAIN transactions :
            \E a \in DOMAIN bankAccounts :
                bankAccounts[a].id = transactions[i].accountId
    /\ \A i \in DOMAIN splitParticipants :
            \E e \in DOMAIN splitExpenses :
                splitExpenses[e].id = splitParticipants[i].expenseId

\* C30 witness: after the deletion of one of two expenses, the other's shares
\* and a transaction on an account are what is left.
C30_Witness ==
    /\ response.op = "deleteSplit"
    /\ created.expenses = 2
    /\ Len(splitExpenses) = 1
    /\ Len(splitParticipants) = 2
    /\ transactions # << >>
=============================================================================
